---- MODULE Spec2Model ----
(***************************************************************************)
(* Model of sidon.py: the SidonState class (add, canonical, negatedPair),  *)
(* the enumerator setsUnder with maxUnder / canonicalList / canonicalMax,  *)
(* the greedy builder mianChowla and the diagnostics sumset / sumHoles /   *)
(* differenceHoles.                                                        *)
(*                                                                         *)
(* Two specifications share the variables:                                 *)
(*   Spec      one SidonState object driven by a client (add, canonical,   *)
(*             sumHoles, differenceHoles) or by mianChowla(n);             *)
(*   SpecEnum  a call of canonicalMax(n): setsUnder's recursion, step by   *)
(*             step, then maxUnder and canonicalList.                      *)
(***************************************************************************)
EXTENDS Integers, Sequences, FiniteSets

VARIABLES
    state,                \* self.state: the elements, in insertion order
    excluded,             \* self.excluded
    differences,          \* self.differences
    nextPositiveOpening,  \* self.nextPositiveOpening
    pc,                   \* which caller drives the object / position of the call
    n,                    \* the argument of mianChowla(n) or of canonicalMax(n)
    call,                 \* the last method called on the object, with its argument
    ret,                  \* the list the last call returned (<<>> for None)
    err,                  \* the exception the last call raised ("none" if it returned)
    stack,                \* the activation records of setsUnder.under
    sets,                 \* maxUnder's local: the list setsUnder(n) returned
    maxStates,            \* the list maxUnder(n) returned
    results               \* the list canonicalList returned

vars == <<state, excluded, differences, nextPositiveOpening, pc, n, call, ret, err,
          stack, sets, maxStates, results>>

(***************************************************************************)
(* Bounds of the model.                                                    *)
(***************************************************************************)
MaxLen == 3      \* a client adds while the object holds fewer elements
MaxX == 6        \* a client adds integers up to MaxX ...
MaxNeg == 1      \* ... and down to -MaxNeg; bounds n down to -MaxNeg
MaxCount == 6    \* mianChowla(n) is called with n in 0..MaxCount
MaxN == 7        \* canonicalMax(n) is called with n up to MaxN

Candidates == (0 - MaxNeg)..MaxX

\* The bounds named by the documented scenarios of canonicalMax.
ScenarioBounds == {2, 4, 7, 12}

EnumBounds == ((0 - MaxNeg)..MaxN) \cup ScenarioBounds

(***************************************************************************)
(* Helpers standing for Python built-ins.                                  *)
(***************************************************************************)
abs(v) == IF v < 0 THEN 0 - v ELSE v

Range(s) == {s[i] : i \in 1..Len(s)}

SetMin(S) == CHOOSE v \in S : \A w \in S : v <= w

SetMax(S) == CHOOSE v \in S : \A w \in S : v >= w

RECURSIVE Insert(_, _)
\* v put into the ascending list s, after the values not above it
Insert(s, v) ==
    IF s = <<>> THEN <<v>>
    ELSE IF v < Head(s) THEN <<v>> \o s
    ELSE <<Head(s)>> \o Insert(Tail(s), v)

RECURSIVE sorted(_)
\* sorted( list ) of integers
sorted(s) ==
    IF s = <<>> THEN <<>>
    ELSE Insert(sorted(SubSeq(s, 1, Len(s) - 1)), s[Len(s)])

RECURSIVE SetToSortedSeq(_)
\* sorted( list( aSet ) )
SetToSortedSeq(S) ==
    IF S = {} THEN <<>>
    ELSE LET m == SetMin(S) IN <<m>> \o SetToSortedSeq(S \ {m})

RECURSIVE ListLess(_, _)
\* Python's list1 < list2: the first differing element decides, a proper
\* prefix is smaller.
ListLess(s, t) ==
    IF t = <<>> THEN FALSE
    ELSE IF s = <<>> THEN TRUE
    ELSE IF Head(s) # Head(t) THEN Head(s) < Head(t)
    ELSE ListLess(Tail(s), Tail(t))

(***************************************************************************)
(* class SidonState                                                        *)
(***************************************************************************)
\* The fields set by __init__ before the initial elements are added.
EmptyState ==
    [state |-> <<>>, excluded |-> {}, differences |-> {}, nextPositiveOpening |-> 1]

\* addExcludeDifferences, keeping only a - diff
addExcludeDifferences_onlyMinus(excl, a, diff) == excl \cup {a - diff}

\* addExcludeDifferences( self, a, diff ), on the excluded set
addExcludeDifferences(excl, a, diff) == excl \cup {a + diff, a - diff}

RECURSIVE ScanDifferences(_, _, _, _)
\* add, first loop: the new differences |a - x|, in the order of self.state,
\* each added to self.differences as it is found.
ScanDifferences(elems, x, diffs, fresh) ==
    IF elems = <<>> THEN [differences |-> diffs, freshDifferences |-> fresh]
    ELSE LET diff == abs(Head(elems) - x) IN
         IF diff \notin diffs
         THEN ScanDifferences(Tail(elems), x, diffs \cup {diff}, Append(fresh, diff))
         ELSE ScanDifferences(Tail(elems), x, diffs, fresh)

\* add, inner loop "for diff in freshDifferences": set.add only grows the set,
\* so the loop leaves the union of what its turns add
ExcludeFresh(excl, a, fresh) ==
    excl \cup UNION {addExcludeDifferences({}, a, fresh[i]) : i \in 1..Len(fresh)}

\* add, inner loop "for diff in self.differences"
ExcludeAll(excl, x, diffs) ==
    excl \cup UNION {addExcludeDifferences({}, x, diff) : diff \in diffs}

\* add, outer loop "for a in self.state" (the new element included)
ExcludeLoop(excl, elems, x, fresh, diffs) ==
    excl \cup UNION {ExcludeAll(ExcludeFresh({}, elems[i], fresh), x, diffs) :
                        i \in 1..Len(elems)}

\* the while loop of add, taking one step at most
AdvanceOpening_once(opening, excl) ==
    IF opening \in excl THEN opening + 1 ELSE opening

RECURSIVE AdvanceOpening(_, _)
\* add, "while self.nextPositiveOpening in self.excluded"
AdvanceOpening(opening, excl) ==
    IF opening \in excl THEN AdvanceOpening(opening + 1, excl) ELSE opening

\* add without its closing while loop: the opening is left where it was
add_keepOpening(self, x) ==
    LET scan  == ScanDifferences(self.state, x, self.differences, <<>>)
        elems == Append(self.state, x)
        excl  == ExcludeLoop(self.excluded \cup {x}, elems, x,
                             scan.freshDifferences, scan.differences)
    IN  [state |-> elems,
         excluded |-> excl,
         differences |-> scan.differences,
         nextPositiveOpening |-> self.nextPositiveOpening]

\* SidonState.add( self, x ): the object after the call
add(self, x) ==
    LET scan  == ScanDifferences(self.state, x, self.differences, <<>>)
        elems == Append(self.state, x)
        excl  == ExcludeLoop(self.excluded \cup {x}, elems, x,
                             scan.freshDifferences, scan.differences)
    IN  [state |-> elems,
         excluded |-> excl,
         differences |-> scan.differences,
         nextPositiveOpening |-> AdvanceOpening(self.nextPositiveOpening, excl)]

RECURSIVE AddAll(_, _)
\* __init__, "for element in initState: self.add( element )"
AddAll(self, initState) ==
    IF initState = <<>> THEN self
    ELSE AddAll(add(self, Head(initState)), Tail(initState))

\* SidonState( *initState )
SidonState(initState) == AddAll(EmptyState, initState)

\* SidonState.negatedPair( self, n )
negatedPair(self, bound) ==
    SidonState(sorted([i \in 1..Len(self.state) |-> bound - self.state[i] + 1]))

\* canonical, returning the larger of the two lists
canonical_flipped(self) ==
    LET offset     == 1 - self.state[1]
        translated == SidonState([i \in 1..Len(self.state) |-> self.state[i] + offset])
        pair       == negatedPair(translated, translated.state[Len(translated.state)])
    IN  IF ListLess(pair.state, translated.state) THEN translated ELSE pair

\* SidonState.canonical( self ), for a non-empty self.state
canonical(self) ==
    LET offset     == 1 - self.state[1]
        translated == SidonState([i \in 1..Len(self.state) |-> self.state[i] + offset])
        pair       == negatedPair(translated, translated.state[Len(translated.state)])
    IN  IF ListLess(translated.state, pair.state) THEN translated ELSE pair

(***************************************************************************)
(* The tables of known maximum sets.                                       *)
(***************************************************************************)
m1 == << SidonState(<<1>>) >>
m2 == << SidonState(<<1, 2>>) >>
m3 == << SidonState(<<1, 2, 4>>) >>
m4 == << SidonState(<<1, 2, 5, 7>>) >>
m5 == << SidonState(<<1, 2, 5, 10, 12>>), SidonState(<<1, 3, 8, 9, 12>>) >>

StatesOf(list) == [i \in 1..Len(list) |-> list[i].state]

(***************************************************************************)
(* Diagnostics                                                             *)
(***************************************************************************)
\* sumset, leaving out the sums a + a
sumset_distinctOnly(self) ==
    LET size == Len(self.state)
        row(i) == [k \in 1..(size - i) |-> self.state[i] + self.state[i + k]]
        rows[i \in 0..size] == IF i = 0 THEN <<>> ELSE rows[i - 1] \o row(i)
    IN  sorted(rows[size])

\* sumset( state ): the sums state[i] + state[j], i <= j, sorted
sumset(self) ==
    LET size == Len(self.state)
        row(i) == [k \in 1..(size - i + 1) |-> self.state[i] + self.state[i + k - 1]]
        rows[i \in 0..size] == IF i = 0 THEN <<>> ELSE rows[i - 1] \o row(i)
    IN  sorted(rows[size])

RECURSIVE RemoveEach(_, _)
\* "for x in list: spread.remove( x )"; set.remove raises KeyError on a value
\* that is not (or no longer) in the set
RemoveEach(spread, list) ==
    IF list = <<>> THEN [err |-> "none", spread |-> spread]
    ELSE IF Head(list) \notin spread THEN [err |-> "KeyError", spread |-> spread]
    ELSE RemoveEach(spread \ {Head(list)}, Tail(list))

\* sumHoles( state ): [err, ret]; min() of an empty list raises ValueError
sumHoles(self) ==
    IF self.state = <<>> THEN [err |-> "ValueError", ret |-> <<>>]
    ELSE LET spread  == (2 * SetMin(Range(self.state)))..(2 * SetMax(Range(self.state)))
             removed == RemoveEach(spread, sumset(self))
         IN  IF removed.err # "none" THEN [err |-> removed.err, ret |-> <<>>]
             ELSE [err |-> "none", ret |-> SetToSortedSeq(removed.spread)]

\* differenceHoles( state ): [err, ret]
differenceHoles(self) ==
    IF self.state = <<>> THEN [err |-> "ValueError", ret |-> <<>>]
    ELSE LET spread   == 1..(SetMax(Range(self.state)) - SetMin(Range(self.state)))
             positive == {x \in self.differences : x > 0}
         IN  IF ~(positive \subseteq spread) THEN [err |-> "KeyError", ret |-> <<>>]
             ELSE [err |-> "none", ret |-> SetToSortedSeq(spread \ positive)]

(***************************************************************************)
(* maxUnder, canonicalList                                                 *)
(***************************************************************************)
\* maxUnder's selection, keeping the states of minimum length
maxOf_min(list) ==
    LET maxElements == SetMin({Len(list[i].state) : i \in 1..Len(list)})
    IN  SelectSeq(list, LAMBDA x : Len(x.state) = maxElements)

\* maxUnder, after sets = setsUnder( n ): the states of maximum length
maxOf(list) ==
    LET maxElements == SetMax({Len(list[i].state) : i \in 1..Len(list)})
    IN  SelectSeq(list, LAMBDA x : Len(x.state) = maxElements)

RECURSIVE Unique(_, _)
\* canonicalList, the loop keeping the first of the equal states
Unique(list, kept) ==
    IF list = <<>> THEN kept
    ELSE IF \E i \in 1..Len(kept) : kept[i].state = Head(list).state
         THEN Unique(Tail(list), kept)
         ELSE Unique(Tail(list), Append(kept, Head(list)))

\* canonicalList( states )
canonicalList(states) ==
    Unique([i \in 1..Len(states) |-> canonical(states[i])], <<>>)

(***************************************************************************)
(* The object under test                                                   *)
(***************************************************************************)
object ==
    [state |-> state, excluded |-> excluded, differences |-> differences,
     nextPositiveOpening |-> nextPositiveOpening]

Become(obj) ==
    /\ state' = obj.state
    /\ excluded' = obj.excluded
    /\ differences' = obj.differences
    /\ nextPositiveOpening' = obj.nextPositiveOpening

NoCall == [op |-> "none", arg |-> 0]

enumVars == <<stack, sets, maxStates, results>>

objVars == <<state, excluded, differences, nextPositiveOpening>>

\* The objects a client starts from: SidonState() and the rows of m1..m5.
InitObjects ==
    {EmptyState} \cup UNION {Range(t) : t \in {m1, m2, m3, m4, m5}}

(***************************************************************************)
(* Spec: a client, or mianChowla( n ), drives one SidonState.              *)
(***************************************************************************)
Init ==
    /\ \/ /\ pc = "client"
          /\ n = 0
          /\ \E obj \in InitObjects :
                 /\ state = obj.state
                 /\ excluded = obj.excluded
                 /\ differences = obj.differences
                 /\ nextPositiveOpening = obj.nextPositiveOpening
       \/ /\ pc = "mianChowla"          \* result = SidonState()
          /\ n \in 0..MaxCount
          /\ state = EmptyState.state
          /\ excluded = EmptyState.excluded
          /\ differences = EmptyState.differences
          /\ nextPositiveOpening = EmptyState.nextPositiveOpening
    /\ call = NoCall
    /\ ret = <<>>
    /\ err = "none"
    /\ stack = <<>>
    /\ sets = <<>>
    /\ maxStates = <<>>
    /\ results = <<>>

\* the client calls self.add( x ); add checks nothing and raises nothing
Add(x) ==
    /\ pc = "client"
    /\ Len(state) < MaxLen
    /\ Become(add(object, x))
    /\ call' = [op |-> "add", arg |-> x]
    /\ ret' = <<>>
    /\ err' = "none"
    /\ UNCHANGED <<pc, n, enumVars>>

\* the client calls self.canonical() and goes on with the object returned;
\* self.state[0] raises IndexError on an empty state
Canonical ==
    /\ pc = "client"
    /\ IF state = <<>>
       THEN /\ err' = "IndexError"
            /\ UNCHANGED objVars
       ELSE /\ err' = "none"
            /\ Become(canonical(object))
    /\ call' = [op |-> "canonical", arg |-> 0]
    /\ ret' = <<>>
    /\ UNCHANGED <<pc, n, enumVars>>

\* the client calls sumHoles( self )
SumHoles ==
    /\ pc = "client"
    /\ call' = [op |-> "sumHoles", arg |-> 0]
    /\ ret' = sumHoles(object).ret
    /\ err' = sumHoles(object).err
    /\ UNCHANGED <<objVars, pc, n, enumVars>>

\* the client calls differenceHoles( self )
DifferenceHoles ==
    /\ pc = "client"
    /\ call' = [op |-> "differenceHoles", arg |-> 0]
    /\ ret' = differenceHoles(object).ret
    /\ err' = differenceHoles(object).err
    /\ UNCHANGED <<objVars, pc, n, enumVars>>

\* mianChowla, one turn of "while len( result.state ) < n"
MianChowlaLoop ==
    /\ pc = "mianChowla"
    /\ Len(state) < n
    /\ Become(add(object, nextPositiveOpening))
    /\ call' = [op |-> "add", arg |-> nextPositiveOpening]
    /\ UNCHANGED <<pc, n, ret, err, enumVars>>

\* mianChowla, "return result"
MianChowlaReturn ==
    /\ pc = "mianChowla"
    /\ ~(Len(state) < n)
    /\ pc' = "returned"
    /\ ret' = state
    /\ UNCHANGED <<objVars, n, call, err, enumVars>>

Next ==
    \/ \E x \in Candidates : Add(x)
    \/ Canonical
    \/ SumHoles
    \/ DifferenceHoles
    \/ MianChowlaLoop
    \/ MianChowlaReturn

Spec == Init /\ [][Next]_vars

(***************************************************************************)
(* SpecEnum: a call of canonicalMax( n ).                                  *)
(***************************************************************************)
\* under( state, a ) entered: result = [state], the loop about to start at a
Frame(st, a) == [state |-> st, a |-> a, option |-> a, result |-> <<st>>]

Top == stack[Len(stack)]

InitEnum ==
    /\ pc = "setsUnder"
    /\ n \in EnumBounds
    /\ state = EmptyState.state
    /\ excluded = EmptyState.excluded
    /\ differences = EmptyState.differences
    /\ nextPositiveOpening = EmptyState.nextPositiveOpening
    /\ call = NoCall
    /\ ret = <<>>
    /\ err = "none"
    /\ stack = <<>>
    /\ sets = <<>>
    /\ maxStates = <<>>
    /\ results = <<>>

\* setsUnder( n ): baseState = SidonState(); baseState.add( 1 );
\* under( baseState, 2 ) is entered. No bound is rejected.
SetsUnder ==
    /\ pc = "setsUnder"
    /\ Become(add(EmptyState, 1))
    /\ stack' = <<Frame(add(EmptyState, 1), 2)>>
    /\ pc' = "under"
    /\ UNCHANGED <<n, call, ret, err, sets, maxStates, results>>

\* under, one turn of the loop with option in state.excluded
UnderSkip ==
    /\ pc = "under"
    /\ Top.option <= n
    /\ Top.option \in Top.state.excluded
    /\ stack' = [stack EXCEPT ![Len(stack)].option = @ + 1]
    /\ UNCHANGED <<objVars, pc, n, call, ret, err, sets, maxStates, results>>

\* under, one turn of the loop with option not excluded: the copy gets the
\* option and under( stateCopy, option + 1 ) is entered
UnderBranch ==
    /\ pc = "under"
    /\ Top.option <= n
    /\ Top.option \notin Top.state.excluded
    /\ stack' = Append([stack EXCEPT ![Len(stack)].option = @ + 1],
                       Frame(add(Top.state, Top.option), Top.option + 1))
    /\ UNCHANGED <<objVars, pc, n, call, ret, err, sets, maxStates, results>>

\* under returns its result (a > n, or the loop is over): the caller extends
\* its own result with it; the outermost result is what setsUnder returns
UnderReturn ==
    /\ pc = "under"
    /\ Top.option > n
    /\ IF Len(stack) = 1
       THEN /\ sets' = Top.result
            /\ stack' = <<>>
            /\ pc' = "maxUnder"
       ELSE /\ stack' = [SubSeq(stack, 1, Len(stack) - 1)
                             EXCEPT ![Len(stack) - 1].result = @ \o Top.result]
            /\ UNCHANGED <<sets, pc>>
    /\ UNCHANGED <<objVars, n, call, ret, err, maxStates, results>>

\* maxUnder( n ), after setsUnder( n ) returned
MaxUnder ==
    /\ pc = "maxUnder"
    /\ maxStates' = maxOf(sets)
    /\ pc' = "canonicalList"
    /\ UNCHANGED <<objVars, n, call, ret, err, stack, sets, results>>

\* canonicalMax( n ): canonicalList( maxUnder( n ) )
CanonicalList ==
    /\ pc = "canonicalList"
    /\ results' = canonicalList(maxStates)
    /\ pc' = "returned"
    /\ UNCHANGED <<objVars, n, call, ret, err, stack, sets, maxStates>>

NextEnum ==
    \/ SetsUnder
    \/ UnderSkip
    \/ UnderBranch
    \/ UnderReturn
    \/ MaxUnder
    \/ CanonicalList

SpecEnum == InitEnum /\ [][NextEnum]_vars
(***************************************************************************)
(* Vocabulary of the properties.                                           *)
(***************************************************************************)
\* All sums a + b, a <= b, of a set of integers are distinct.
IsSidon(S) ==
    \A a, b, c, d \in S :
        (a <= b /\ c <= d /\ a + b = c + d) => (a = c /\ b = d)

StrictlyIncreasing(s) == \A i, j \in 1..Len(s) : i < j => s[i] < s[j]

\* Adding y to the elements would violate the Sidon invariant.
Violates(elems, y) == y \in Range(elems) \/ ~IsSidon(Range(elems) \cup {y})

\* Every integer that is excluded, or whose addition violates the invariant,
\* lies within one span of the elements; the window holds them all.
Window(elems) ==
    IF elems = <<>> THEN (0 - 1)..1
    ELSE LET lo == SetMin(Range(elems))
             hi == SetMax(Range(elems))
         IN  (2 * lo - hi - 1)..(2 * hi - lo + 1)

\* Each element was outside excluded at the moment it was added.
AddedLegally(elems) ==
    \A i \in 1..Len(elems) :
        elems[i] \notin SidonState(SubSeq(elems, 1, i - 1)).excluded

\* No integer of 1..bound outside S can join S with all sums distinct.
Maximal(S, bound) == \A y \in (1..bound) \ S : ~IsSidon(S \cup {y})

\* setsUnder( n ) has returned.
SetsReturned == pc \in {"maxUnder", "canonicalList", "returned"}

\* The fields are those add computes from the elements, in their order.
ObjectFollowsState == object = SidonState(state)

\* What excluded holds: the elements and every a + b - c, b # c; the
\* midpoints y with y + y = b + c are not among them.
ExcludedCharacterisation ==
    \A y \in Window(state) :
        y \in excluded <=>
            \/ y \in Range(state)
            \/ \E a, b, c \in Range(state) : b # c /\ y = a + b - c

\* canonical is idempotent on the states whose elements ascend.
CanonicalIdempotentOnAscending ==
    (state # <<>> /\ StrictlyIncreasing(state)) =>
        canonical(canonical(object)).state = canonical(object).state

(***************************************************************************)
(* The claims.                                                             *)
(***************************************************************************)
\* C1: after add calls each made with x outside excluded, excluded is exactly
\* the set of integers y whose addition would violate the Sidon invariant
\* (y an element, or two equal sums a + b = c + d among the elements and y).
C1_ExcludedIsExactlyTheViolators ==
    AddedLegally(state) =>
        \A y \in Window(state) : y \in excluded <=> Violates(state, y)

\* C2: for n >= 1 the states setsUnder( n ) returns are exactly the Sidon
\* subsets of 1..n containing 1: each strictly increasing, within 1..n,
\* starting with 1, with distinct sums, and each such subset returned once.
C2_SetsUnderExact ==
    (SetsReturned /\ n >= 1) =>
        LET found == StatesOf(sets) IN
        /\ \A i \in 1..Len(found) :
              /\ StrictlyIncreasing(found[i])
              /\ Range(found[i]) \subseteq 1..n
              /\ found[i] # <<>> /\ found[i][1] = 1
              /\ IsSidon(Range(found[i]))
        /\ \A i, j \in 1..Len(found) : i # j => found[i] # found[j]
        /\ \A S \in SUBSET (1..n) :
              (1 \in S /\ IsSidon(S)) => \E i \in 1..Len(found) : Range(found[i]) = S

C2_Witness == pc = "returned" /\ n = 12 /\ Len(sets) = 146

\* C3 as claimed: for n >= 1 every state setsUnder( n ) returns is a maximal
\* Sidon subset of 1..n.
C3_EveryReturnedStateMaximal ==
    (SetsReturned /\ n >= 1) =>
        \A i \in 1..Len(sets) : Maximal(Range(sets[i].state), n)

\* C3 as amended: for n >= 1 every state maxUnder( n ) returns (the states of
\* setsUnder( n ) with the most elements) is a maximal Sidon subset of 1..n.
C3_MaxUnderStatesMaximal ==
    (pc \in {"canonicalList", "returned"} /\ n >= 1) =>
        /\ maxStates # <<>>
        /\ \A i \in 1..Len(maxStates) :
              /\ IsSidon(Range(maxStates[i].state))
              /\ Maximal(Range(maxStates[i].state), n)

C3_Witness == pc = "returned" /\ n = 12 /\ Len(maxStates) = 4 /\ Len(sets) > 4

\* C4: canonicalMax( n ) returns exactly [[1,2]] for n = 2, [[1,2,4]] for
\* n = 4, [[1,2,5,7]] for n = 7 and, for n = 12, [1,2,5,10,12] and
\* [1,3,8,9,12] and no others.
C4_CanonicalMaxScenarios ==
    pc = "returned" =>
        /\ n = 2 => StatesOf(results) = << <<1, 2>> >>
        /\ n = 4 => StatesOf(results) = << <<1, 2, 4>> >>
        /\ n = 7 => StatesOf(results) = << <<1, 2, 5, 7>> >>
        /\ n = 12 => StatesOf(results) = << <<1, 2, 5, 10, 12>>, <<1, 3, 8, 9, 12>> >>

C4_Witness == pc = "returned" /\ n = 12 /\ Len(results) = 2

\* C5 as claimed: mianChowla( 6 ) returns the elements [1,2,5,11,22,33].
C5_MianChowlaAsClaimed ==
    (pc = "returned" /\ n = 6) => state = <<1, 2, 5, 11, 22, 33>>

\* C5 as amended: mianChowla( 6 ) returns the elements [1,2,4,8,13,21].
C5_MianChowlaSix ==
    (pc = "returned" /\ n = 6) => (state = <<1, 2, 4, 8, 13, 21>> /\ ret = state)

C5_Witness == pc = "returned" /\ n = 6 /\ Len(state) = 6

\* C6: canonical is idempotent: for a non-empty state s built by add calls,
\* s.canonical().canonical() has the elements of s.canonical().
C6_CanonicalIdempotent ==
    [][(call.op = "canonical" /\ err = "none" /\ call'.op = "canonical" /\ err' = "none")
          => state' = state]_vars

\* C7: add( x ) with x in excluded fails with InvalidCandidate and leaves
\* elements, excluded, differences and nextOpening unchanged.
C7_AddValidates ==
    [][(call'.op = "add" /\ call'.arg \in excluded)
          => (err' = "InvalidCandidate" /\ UNCHANGED objVars)]_vars

\* C8: setsUnder( n ), and maxUnder / canonicalMax built on it, called with
\* n < 1 fails with InvalidBound instead of returning a result.
C8_InvalidBoundRejected ==
    n < 1 =>
        /\ pc = "setsUnder" \/ err = "InvalidBound"
        /\ sets = <<>> /\ maxStates = <<>> /\ results = <<>>

\* C9 as claimed: for the state {1,2,5,7} the sums are exactly
\* {2,3,6,7,8,9,10,12,14}, sumHoles returns the integers of 2..14 outside
\* that list, the differences are exactly 1..6 and differenceHoles returns
\* the empty list.
C9_HolesAsClaimed ==
    (state = <<1, 2, 5, 7>> /\ call.op \in {"sumHoles", "differenceHoles"}) =>
        /\ Range(sumset(object)) = {2, 3, 6, 7, 8, 9, 10, 12, 14}
        /\ call.op = "sumHoles" =>
              ret = SetToSortedSeq((2..14) \ {2, 3, 6, 7, 8, 9, 10, 12, 14})
        /\ differences = 1..6
        /\ call.op = "differenceHoles" => ret = <<>>

\* C9 as amended: for the state {1,2,5,7} the sums are exactly
\* {2,3,4,6,7,8,9,10,12,14} (4 = 2 + 2 among them), sumHoles returns
\* [5,11,13], the differences are exactly 1..6 and differenceHoles returns
\* the empty list.
C9_HolesOfM4 ==
    (state = <<1, 2, 5, 7>> /\ call.op \in {"sumHoles", "differenceHoles"}) =>
        /\ sumset(object) = <<2, 3, 4, 6, 7, 8, 9, 10, 12, 14>>
        /\ err = "none"
        /\ call.op = "sumHoles" => ret = <<5, 11, 13>>
        /\ differences = 1..6
        /\ call.op = "differenceHoles" => ret = <<>>

C9_Witness == state = <<1, 2, 5, 7>> /\ call.op = "sumHoles" /\ ret = <<5, 11, 13>>

\* C10: in the empty state and after any add calls, nextPositiveOpening is
\* the smallest positive integer not in excluded; so every element
\* mianChowla appends is greater than all elements already in the state.
C10_NextOpeningIsLeast ==
    /\ nextPositiveOpening >= 1
    /\ nextPositiveOpening \notin excluded
    /\ \A k \in 1..(nextPositiveOpening - 1) : k \in excluded
    /\ pc \in {"mianChowla", "returned"} =>
          /\ StrictlyIncreasing(state)
          /\ \A i \in 1..Len(state) : state[i] < nextPositiveOpening

C10_Witness ==
    pc = "client" /\ call.op = "add" /\ Len(state) = 3 /\ nextPositiveOpening = 4
====
